---- MODULE Spec2Model ----
(***************************************************************************)
(* Model of torch/ao/quantization/backend_config/onednn.py: the module's   *)
(* load-time construction of conv_configs and linear_configs, the eltwise  *)
(* fusion-pattern helper, the linear + batch-norm + leaky-relu fuser       *)
(* method and the assembly of the onednn BackendConfig.                    *)
(***************************************************************************)
EXTENDS Integers, Sequences, FiniteSets, TLC

\* ------------------------------------------------------------------ bounds
\* helper calls on the caller-supplied collection
MaxCalls == 2
\* calls of get_onednn_backend_config that are counted
MaxGets == 2
\* module parameters (weights, biases, statistics) range over 0..MaxParam
MaxParam == 1
\* inputs fed through the modules range over -MaxX..MaxX
MaxX == 2

\* ------------------------------------------------------------ python None
None == "None"

Range(s) == {s[i] : i \in 1..Len(s)}

\* ------------------------------------------------------------ DTypeConfig
DTypeConfig(input_dtype, output_dtype, weight_dtype, bias_dtype, is_dynamic) ==
    [input_dtype |-> input_dtype, output_dtype |-> output_dtype,
     weight_dtype |-> weight_dtype, bias_dtype |-> bias_dtype,
     is_dynamic |-> is_dynamic]

onednn_weighted_op_int8_dtype_config ==
    DTypeConfig("torch.quint8", "torch.quint8", "torch.qint8", "torch.float", FALSE)

onednn_op_quint8_dtype_config ==
    DTypeConfig("torch.quint8", "torch.quint8", None, None, FALSE)

onednn_dynamic_int8_dtype_config ==
    DTypeConfig("torch.quint8", "torch.float", "torch.qint8", "torch.float", TRUE)

onednn_weight_only_qint8_dtype_config ==
    DTypeConfig("torch.float", "torch.float", "torch.qint8", None, FALSE)

onednn_input_output_only_quint8_dtype_config ==
    DTypeConfig("torch.quint8", "torch.quint8", "torch.float", "torch.float", FALSE)

conv_dtype_configs == <<onednn_weighted_op_int8_dtype_config>>

linear_dtype_configs ==
    <<onednn_weighted_op_int8_dtype_config, onednn_dynamic_int8_dtype_config>>

observation_type == "OUTPUT_USE_DIFFERENT_OBSERVER_AS_INPUT"

binary_op_dtype_configs == <<onednn_op_quint8_dtype_config>>
default_op_dtype_configs == <<onednn_op_quint8_dtype_config>>
fixed_qparams_op_dtype_configs == <<onednn_op_quint8_dtype_config>>
share_qparams_op_dtype_configs == <<onednn_op_quint8_dtype_config>>
rnn_op_dtype_configs == <<onednn_dynamic_int8_dtype_config>>
embedding_op_dtype_configs == <<onednn_weight_only_qint8_dtype_config>>
layer_norm_op_dtype_configs == <<onednn_input_output_only_quint8_dtype_config>>

\* --------------------------------------------------- BackendPatternConfig
\* A pattern is a tuple of operator names; a single operator is a 1-tuple.
\* A field no setter was called on holds None (dtype_configs: the empty list).
BackendPatternConfig(pattern) ==
    [pattern |-> pattern, dtype_configs |-> <<>>, observation_type |-> None,
     fuser_method |-> None, fused_module |-> None, root_module |-> None,
     reference_quantized_module |-> None]

set_dtype_configs(c, dtype_configs) == [c EXCEPT !.dtype_configs = dtype_configs]
set_fuser_method(c, fuser_method) == [c EXCEPT !.fuser_method = fuser_method]
set_fused_module(c, fused_module) == [c EXCEPT !.fused_module = fused_module]
set_observation_type(c, obs) == [c EXCEPT !.observation_type = obs]
set_root_module(c, root_module) == [c EXCEPT !.root_module = root_module]
set_reference_quantized_module(c, ref) ==
    [c EXCEPT !.reference_quantized_module = ref]

_sequential_wrapper2(sequential) == <<"_sequential_wrapper2", sequential>>

\* ------------------------------------------- shared table-builder functions
\* One builder per operator family: each takes a list of dtype configs and
\* returns the family's descriptors, all carrying that list.
OpConfig(op, dtype_configs) ==
    set_dtype_configs(
        set_observation_type(BackendPatternConfig(<<op>>), observation_type),
        dtype_configs)

_get_conv_configs(dtype_configs) ==
    <<OpConfig("nn.Conv2d", dtype_configs), OpConfig("F.conv2d", dtype_configs)>>
_get_linear_configs(dtype_configs) ==
    <<OpConfig("nn.Linear", dtype_configs), OpConfig("F.linear", dtype_configs)>>
_get_binary_op_configs(dtype_configs) ==
    <<OpConfig("torch.add", dtype_configs), OpConfig("torch.mul", dtype_configs)>>
_get_cat_config(dtype_configs) == OpConfig("torch.cat", dtype_configs)
_get_default_op_configs(dtype_configs) ==
    <<OpConfig("nn.ELU", dtype_configs)>>
_get_fixed_qparams_op_configs(dtype_configs) ==
    <<OpConfig("nn.Sigmoid", dtype_configs)>>
_get_share_qparams_op_configs(dtype_configs) ==
    <<OpConfig("nn.MaxPool2d", dtype_configs)>>
_get_bn_configs(dtype_configs) ==
    <<OpConfig("nn.BatchNorm2d", dtype_configs)>>
_get_ln_configs(dtype_configs) ==
    <<OpConfig("nn.LayerNorm", dtype_configs)>>
_get_rnn_op_configs(dtype_configs) ==
    <<OpConfig("nn.LSTM", dtype_configs)>>
_get_embedding_op_configs(dtype_configs) ==
    <<OpConfig("nn.Embedding", dtype_configs)>>

\* ------------------------------------------------------------ BackendConfig
BackendConfig(name) == [name |-> name, configs |-> <<>>]
set_backend_pattern_config(bc, config) ==
    [bc EXCEPT !.configs = Append(@, config)]
set_backend_pattern_configs(bc, configs) ==
    [bc EXCEPT !.configs = @ \o configs]

\* ------------------------------------------- _add_eltwise_fusion_configs
\* The list handed in is mutated in place; the operator gives its new value.
_add_eltwise_fusion_configs_drop_last(configs, root_module, root_op, post_module, post_op, dtype_configs, fuser_method, fused_module, obs, ref_quant_module) ==
    configs \o
    << set_fused_module(set_fuser_method(set_dtype_configs(
           BackendPatternConfig(<<root_module, post_module>>),
           dtype_configs), fuser_method), fused_module),
       set_fused_module(set_fuser_method(set_dtype_configs(
           BackendPatternConfig(<<root_module, post_op>>),
           dtype_configs), fuser_method), fused_module),
       set_reference_quantized_module(set_root_module(set_dtype_configs(
           set_observation_type(BackendPatternConfig(<<fused_module>>), obs),
           dtype_configs), root_module), ref_quant_module),
       set_dtype_configs(set_observation_type(
           BackendPatternConfig(<<root_op, post_module>>), obs), dtype_configs) >>

_add_eltwise_fusion_configs_prepend(configs, root_module, root_op, post_module, post_op, dtype_configs, fuser_method, fused_module, obs, ref_quant_module) ==
    << set_fused_module(set_fuser_method(set_dtype_configs(
           BackendPatternConfig(<<root_module, post_module>>),
           dtype_configs), fuser_method), fused_module) >>
    \o configs \o
    << set_fused_module(set_fuser_method(set_dtype_configs(
           BackendPatternConfig(<<root_module, post_op>>),
           dtype_configs), fuser_method), fused_module),
       set_reference_quantized_module(set_root_module(set_dtype_configs(
           set_observation_type(BackendPatternConfig(<<fused_module>>), obs),
           dtype_configs), root_module), ref_quant_module),
       set_dtype_configs(set_observation_type(
           BackendPatternConfig(<<root_op, post_module>>), obs), dtype_configs),
       set_dtype_configs(set_observation_type(
           BackendPatternConfig(<<root_op, post_op>>), obs), dtype_configs) >>

_add_eltwise_fusion_configs_no_root(configs, root_module, root_op, post_module, post_op, dtype_configs, fuser_method, fused_module, obs, ref_quant_module) ==
    configs \o
    << set_fused_module(set_fuser_method(set_dtype_configs(
           BackendPatternConfig(<<root_module, post_module>>),
           dtype_configs), fuser_method), fused_module),
       set_fused_module(set_fuser_method(set_dtype_configs(
           BackendPatternConfig(<<root_module, post_op>>),
           dtype_configs), fuser_method), fused_module),
       set_reference_quantized_module(set_dtype_configs(
           set_observation_type(BackendPatternConfig(<<fused_module>>), obs),
           dtype_configs), ref_quant_module),
       set_dtype_configs(set_observation_type(
           BackendPatternConfig(<<root_op, post_module>>), obs), dtype_configs),
       set_dtype_configs(set_observation_type(
           BackendPatternConfig(<<root_op, post_op>>), obs), dtype_configs) >>

_add_eltwise_fusion_configs(configs, root_module, root_op, post_module, post_op, dtype_configs, fuser_method, fused_module, obs, ref_quant_module) ==
    configs \o
    << \* 1 base module + op module fusion config
       set_fused_module(set_fuser_method(set_dtype_configs(
           BackendPatternConfig(<<root_module, post_module>>),
           dtype_configs), fuser_method), fused_module),
       \* base module + functional post op
       set_fused_module(set_fuser_method(set_dtype_configs(
           BackendPatternConfig(<<root_module, post_op>>),
           dtype_configs), fuser_method), fused_module),
       \* 2 fused module configs
       set_reference_quantized_module(set_root_module(set_dtype_configs(
           set_observation_type(BackendPatternConfig(<<fused_module>>), obs),
           dtype_configs), root_module), ref_quant_module),
       \* 3 functional base op + post op configs
       set_dtype_configs(set_observation_type(
           BackendPatternConfig(<<root_op, post_module>>), obs), dtype_configs),
       set_dtype_configs(set_observation_type(
           BackendPatternConfig(<<root_op, post_op>>), obs), dtype_configs) >>

\* Argument tuples of the helper: the two the module itself passes, and a
\* third with another dtype list and observation type.  A caller passes the
\* first or the third.
LeakyReLUArgs ==
    [root_module |-> "nn.Linear", root_op |-> "F.linear",
     post_module |-> "nn.LeakyReLU", post_op |-> "F.leaky_relu",
     dtype_configs |-> linear_dtype_configs,
     fuser_method |-> _sequential_wrapper2("nni.LinearLeakyReLU"),
     fused_module |-> "nni.LinearLeakyReLU",
     observation_type |-> observation_type,
     ref_quant_module |-> "nnqr.Linear"]

TanhArgs ==
    [root_module |-> "nn.Linear", root_op |-> "F.linear",
     post_module |-> "nn.Tanh", post_op |-> "torch.tanh",
     dtype_configs |-> linear_dtype_configs,
     fuser_method |-> _sequential_wrapper2("nni.LinearTanh"),
     fused_module |-> "nni.LinearTanh",
     observation_type |-> observation_type,
     ref_quant_module |-> "nnqr.Linear"]

ConvReLUArgs ==
    [root_module |-> "nn.Conv2d", root_op |-> "F.conv2d",
     post_module |-> "nn.ReLU", post_op |-> "F.relu",
     dtype_configs |-> conv_dtype_configs,
     fuser_method |-> _sequential_wrapper2("nni.ConvReLU2d"),
     fused_module |-> "nni.ConvReLU2d",
     observation_type |-> "OUTPUT_SHARE_OBSERVER_WITH_INPUT",
     ref_quant_module |-> "nnqr.Conv2d"]

ArgTuples == {LeakyReLUArgs, ConvReLUArgs}

CallHelper(configs, a) ==
    _add_eltwise_fusion_configs(configs, a.root_module, a.root_op,
        a.post_module, a.post_op, a.dtype_configs, a.fuser_method,
        a.fused_module, a.observation_type, a.ref_quant_module)

\* Collections a caller may hand to the helper.
StartCollections ==
    { <<>>,
      <<OpConfig("nn.Conv2d", conv_dtype_configs),
        OpConfig("nn.ReLU", default_op_dtype_configs)>> }

\* --------------------------------------------------------------- modules
\* A module is its runtime type, its train/eval flag and its parameters.
\* Parameters are rationals; a Linear keeps weight and bias over one common
\* denominator den.  BatchNorm1d holds its running mean, the standard
\* deviation sqrt(running_var + eps), and the affine weight and bias.
\* The three modules of a run are the caller's: they are fixed when the run
\* starts and every call of the fuser method is made on them.
\* LeakyReLU has the default negative slope 1/100.
ParamVals == 0..MaxParam
StdVals == {1, 2}
NegSlopeNum == 1
NegSlopeDen == 100

\* NonDynamicallyQuantizableLinear is a subclass of nn.Linear, nn.Bilinear is not.
LinearTypes == {"nn.Linear", "NonDynamicallyQuantizableLinear", "nn.Bilinear"}
IsInstance(t, cls) ==
    t = cls \/ (t = "NonDynamicallyQuantizableLinear" /\ cls = "nn.Linear")

LinearModules ==
    [type : LinearTypes, training : BOOLEAN, weight : ParamVals,
     bias : ParamVals, den : {1}]
BatchNormModules ==
    [type : {"nn.BatchNorm1d"}, training : BOOLEAN, running_mean : {1},
     std : StdVals, weight : {2}, bias : {1}]
LeakyReLUModules == [type : {"nn.LeakyReLU"}, training : BOOLEAN]

\* forward passes in evaluation mode, on a rational [num, den] with den > 0
Rat(n, d) == [num |-> n, den |-> d]
RatEq(a, b) == a.num * b.den = b.num * a.den
LinearForward(m, x) ==
    Rat(m.weight * x.num + m.bias * x.den, m.den * x.den)
BatchNormForward(m, y) ==
    Rat((y.num - m.running_mean * y.den) * m.weight + m.bias * m.std * y.den,
        y.den * m.std)
LeakyReLUForward(m, y) ==
    IF y.num >= 0 THEN y ELSE Rat(y.num * NegSlopeNum, y.den * NegSlopeDen)
\* nni.LinearLeakyReLU is a Sequential of its two components
LinearLeakyReLUForward(fm, x) ==
    LeakyReLUForward(fm.leaky_relu, LinearForward(fm.linear, x))

\* nn.utils.fusion.fuse_linear_bn_eval: a copy of linear with
\*   weight' = weight * bn.weight / std
\*   bias'   = (bias - running_mean) * bn.weight / std + bn.bias
fuse_linear_bn_eval(linear, bn) ==
    [linear EXCEPT
        !.weight = linear.weight * bn.weight,
        !.bias = (linear.bias - bn.running_mean * linear.den) * bn.weight
                 + bn.bias * bn.std * linear.den,
        !.den = linear.den * bn.std]

\* What the fold does with modules in training mode is the utility's own
\* business: it may reject them or fold the running statistics anyway.
fuse_linear_bn_eval_raises(linear, bn) ==
    IF linear.training \/ bn.training THEN {TRUE, FALSE} ELSE {FALSE}

\* ------------------------------------------ _fuse_linear_bn_leaky_relu
NoModule == [type |-> None]
Raise(exc, msg, modules, folded) ==
    [outcome |-> exc, message |-> msg, modules |-> modules, value |-> NoModule,
     fold_called |-> folded, constructed |-> FALSE]
Return(fm) ==
    [outcome |-> "returned", message |-> None, modules |-> <<>>, value |-> fm,
     fold_called |-> TRUE, constructed |-> TRUE]
NoCall ==
    [outcome |-> "none", message |-> None, modules |-> <<>>, value |-> NoModule,
     fold_called |-> FALSE, constructed |-> FALSE]

AssertMessage ==
    "Linear, BN and LeakyReLU all must be in the same mode (train or eval)."

map_to_fused_module_eval == [t \in {"nn.Linear"} |-> "nni.LinearLeakyReLU"]

\* the constructor fused_module(fused_linear, leaky_relu)
LinearLeakyReLU(cls, linear, leaky_relu) ==
    [type |-> cls, linear |-> linear, leaky_relu |-> leaky_relu]

\* The set of outcomes of one call.
_fuse_assert_after_qat(is_qat, linear, bn, leaky_relu) ==
    IF is_qat
    THEN {Raise("NotImplementedError", "Cannot fuse train modules: {}",
                <<linear, bn, leaky_relu>>, FALSE)}
    ELSE IF ~(linear.training = bn.training /\ bn.training = leaky_relu.training)
    THEN {Raise("AssertionError", AssertMessage, <<>>, FALSE)}
    ELSE IF linear.type \in DOMAIN map_to_fused_module_eval
    THEN { IF raises
           THEN Raise("AssertionError", "fuse_linear_bn_eval", <<>>, TRUE)
           ELSE Return(LinearLeakyReLU(map_to_fused_module_eval[linear.type],
                           fuse_linear_bn_eval(linear, bn), leaky_relu))
           : raises \in fuse_linear_bn_eval_raises(linear, bn) }
    ELSE {Raise("NotImplementedError", "Cannot fuse eval modules: {}",
                <<linear, bn, leaky_relu>>, FALSE)}

_fuse_qat_ignored(is_qat, linear, bn, leaky_relu) ==
    IF ~(linear.training = bn.training /\ bn.training = leaky_relu.training)
    THEN {Raise("AssertionError", AssertMessage, <<>>, FALSE)}
    ELSE IF linear.type \in DOMAIN map_to_fused_module_eval
    THEN { IF raises
           THEN Raise("AssertionError", "fuse_linear_bn_eval", <<>>, TRUE)
           ELSE Return(LinearLeakyReLU(map_to_fused_module_eval[linear.type],
                           fuse_linear_bn_eval(linear, bn), leaky_relu))
           : raises \in fuse_linear_bn_eval_raises(linear, bn) }
    ELSE {Raise("NotImplementedError", "Cannot fuse eval modules: {}",
                <<linear, bn, leaky_relu>>, FALSE)}

_fuse_isinstance(is_qat, linear, bn, leaky_relu) ==
    IF ~(linear.training = bn.training /\ bn.training = leaky_relu.training)
    THEN {Raise("AssertionError", AssertMessage, <<>>, FALSE)}
    ELSE IF is_qat
    THEN {Raise("NotImplementedError", "Cannot fuse train modules: {}",
                <<linear, bn, leaky_relu>>, FALSE)}
    ELSE IF IsInstance(linear.type, "nn.Linear")
    THEN { IF raises
           THEN Raise("AssertionError", "fuse_linear_bn_eval", <<>>, TRUE)
           ELSE Return(LinearLeakyReLU("nni.LinearLeakyReLU",
                           fuse_linear_bn_eval(linear, bn), leaky_relu))
           : raises \in fuse_linear_bn_eval_raises(linear, bn) }
    ELSE {Raise("NotImplementedError", "Cannot fuse eval modules: {}",
                <<linear, bn, leaky_relu>>, FALSE)}

_fuse_without_fold(is_qat, linear, bn, leaky_relu) ==
    IF ~(linear.training = bn.training /\ bn.training = leaky_relu.training)
    THEN {Raise("AssertionError", AssertMessage, <<>>, FALSE)}
    ELSE IF is_qat
    THEN {Raise("NotImplementedError", "Cannot fuse train modules: {}",
                <<linear, bn, leaky_relu>>, FALSE)}
    ELSE IF linear.type \in DOMAIN map_to_fused_module_eval
    THEN {Return(LinearLeakyReLU(map_to_fused_module_eval[linear.type],
                                 linear, leaky_relu))}
    ELSE {Raise("NotImplementedError", "Cannot fuse eval modules: {}",
                <<linear, bn, leaky_relu>>, FALSE)}

_fuse_linear_bn_leaky_relu(is_qat, linear, bn, leaky_relu) ==
    IF ~(linear.training = bn.training /\ bn.training = leaky_relu.training)
    THEN {Raise("AssertionError", AssertMessage, <<>>, FALSE)}
    ELSE IF is_qat
    THEN {Raise("NotImplementedError", "Cannot fuse train modules: {}",
                <<linear, bn, leaky_relu>>, FALSE)}
    ELSE LET fused_module ==
                 IF linear.type \in DOMAIN map_to_fused_module_eval
                 THEN map_to_fused_module_eval[linear.type] ELSE None
         IN  IF fused_module # None
             THEN { IF raises
                    THEN Raise("AssertionError", "fuse_linear_bn_eval", <<>>, TRUE)
                    ELSE Return(LinearLeakyReLU(fused_module,
                                    fuse_linear_bn_eval(linear, bn), leaky_relu))
                    : raises \in fuse_linear_bn_eval_raises(linear, bn) }
             ELSE {Raise("NotImplementedError", "Cannot fuse eval modules: {}",
                         <<linear, bn, leaky_relu>>, FALSE)}

\* ------------------------------------------------------------------ state
VARIABLES
    pc,              \* position in the module's top-level code
    conv_configs,    \* module-level list
    linear_configs,  \* module-level list
    loaded,          \* the two module-level lists as they were when load ended
    configs0,        \* a caller's collection as first handed to the helper
    configs,         \* that collection now
    calls,           \* helper calls made on it
    call,            \* the last helper call: arguments, list before and after
    linear,          \* the caller's Linear module
    bn,              \* the caller's BatchNorm1d module
    leaky_relu,      \* the caller's LeakyReLU module
    is_qat,          \* flag passed to the last _fuse_linear_bn_leaky_relu call
    fuse_out,        \* its outcome
    backend_config,  \* BackendConfig returned by the last get_onednn_backend_config
    returned,        \* every distinct BackendConfig returned so far
    gets             \* calls of get_onednn_backend_config

vars == <<pc, conv_configs, linear_configs, loaded, configs0, configs, calls,
          call, linear, bn, leaky_relu, is_qat, fuse_out, backend_config,
          returned, gets>>

NoHelperCall ==
    [target |-> None, args |-> LeakyReLUArgs, before |-> <<>>, after |-> <<>>]

Init ==
    /\ pc = "conv_configs"
    /\ conv_configs = <<>>
    /\ linear_configs = <<>>
    /\ loaded = [conv_configs |-> <<>>, linear_configs |-> <<>>]
    /\ configs0 \in StartCollections
    /\ configs = configs0
    /\ calls = 0
    /\ call = NoHelperCall
    /\ linear \in LinearModules
    /\ bn \in BatchNormModules
    /\ leaky_relu \in LeakyReLUModules
    /\ is_qat = FALSE
    /\ fuse_out = NoCall
    /\ backend_config = BackendConfig(None)
    /\ returned = {}
    /\ gets = 0

\* ------------------------------------------------- module top-level code
client_vars == <<configs0, configs, calls, linear, bn, leaky_relu, is_qat,
                 fuse_out, backend_config, returned, gets>>

\* conv_configs = _get_conv_configs(conv_dtype_configs)
LoadConvConfigs ==
    /\ pc = "conv_configs"
    /\ conv_configs' = _get_conv_configs(conv_dtype_configs)
    /\ pc' = "linear_configs"
    /\ UNCHANGED <<linear_configs, loaded, call, client_vars>>

\* linear_configs = _get_linear_configs(linear_dtype_configs)
LoadLinearConfigs ==
    /\ pc = "linear_configs"
    /\ linear_configs' = _get_linear_configs(linear_dtype_configs)
    /\ pc' = "leaky_relu"
    /\ UNCHANGED <<conv_configs, loaded, call, client_vars>>

\* Configs for linear + leaky_relu fusion
LoadLinearLeakyReLU ==
    /\ pc = "leaky_relu"
    /\ linear_configs' = CallHelper(linear_configs, LeakyReLUArgs)
    /\ call' = [target |-> "linear_configs", args |-> LeakyReLUArgs,
                before |-> linear_configs, after |-> linear_configs']
    /\ pc' = "bn_leaky_relu"
    /\ UNCHANGED <<conv_configs, loaded, client_vars>>

\* Configs for linear module + batchnorm + leaky_relu
LoadLinearBnLeakyReLU ==
    /\ pc = "bn_leaky_relu"
    /\ linear_configs' = Append(linear_configs,
           set_fused_module(set_fuser_method(set_dtype_configs(
               BackendPatternConfig(<<"nn.Linear", "nn.BatchNorm1d", "nn.LeakyReLU">>),
               linear_dtype_configs), "_fuse_linear_bn_leaky_relu"),
               "nni.LinearLeakyReLU"))
    /\ pc' = "tanh"
    /\ UNCHANGED <<conv_configs, loaded, call, client_vars>>

\* Configs for linear + tanh fusion; the last statement that touches the lists
LoadLinearTanh ==
    /\ pc = "tanh"
    /\ linear_configs' = CallHelper(linear_configs, TanhArgs)
    /\ call' = [target |-> "linear_configs", args |-> TanhArgs,
                before |-> linear_configs, after |-> linear_configs']
    /\ loaded' = [conv_configs |-> conv_configs, linear_configs |-> linear_configs']
    /\ pc' = "loaded"
    /\ UNCHANGED <<conv_configs, client_vars>>

\* ----------------------------------------------- calls on the loaded module
\* _add_eltwise_fusion_configs(configs, ...) on a caller's collection
AddEltwiseFusionConfigs ==
    /\ pc = "loaded"
    /\ calls < MaxCalls
    /\ \E a \in ArgTuples :
          /\ configs' = CallHelper(configs, a)
          /\ call' = [target |-> "configs", args |-> a,
                      before |-> configs, after |-> configs']
    /\ calls' = calls + 1
    /\ UNCHANGED <<pc, conv_configs, linear_configs, loaded, configs0, linear,
                   bn, leaky_relu, is_qat, fuse_out, backend_config, returned,
                   gets>>

\* _fuse_linear_bn_leaky_relu(is_qat, linear, bn, leaky_relu)
FuseLinearBnLeakyReLU ==
    /\ pc = "loaded"
    /\ \E q \in BOOLEAN :
          /\ is_qat' = q
          /\ fuse_out' \in _fuse_linear_bn_leaky_relu(q, linear, bn, leaky_relu)
    /\ UNCHANGED <<pc, conv_configs, linear_configs, loaded, configs0, configs,
                   calls, call, linear, bn, leaky_relu, backend_config, returned,
                   gets>>

\* the value get_onednn_backend_config() builds
onednn_backend_config_bad_ln ==
    set_backend_pattern_configs(set_backend_pattern_configs(
    set_backend_pattern_configs(set_backend_pattern_configs(
    set_backend_pattern_configs(set_backend_pattern_configs(
    set_backend_pattern_configs(set_backend_pattern_config(
    set_backend_pattern_configs(set_backend_pattern_configs(
    set_backend_pattern_configs(BackendConfig("onednn"),
        conv_configs),
        linear_configs),
        _get_binary_op_configs(binary_op_dtype_configs)),
        _get_cat_config(default_op_dtype_configs)),
        _get_default_op_configs(default_op_dtype_configs)),
        _get_fixed_qparams_op_configs(fixed_qparams_op_dtype_configs)),
        _get_share_qparams_op_configs(share_qparams_op_dtype_configs)),
        _get_bn_configs(default_op_dtype_configs)),
        _get_ln_configs(default_op_dtype_configs)),
        _get_rnn_op_configs(rnn_op_dtype_configs)),
        _get_embedding_op_configs(embedding_op_dtype_configs))

onednn_backend_config ==
    set_backend_pattern_configs(set_backend_pattern_configs(
    set_backend_pattern_configs(set_backend_pattern_configs(
    set_backend_pattern_configs(set_backend_pattern_configs(
    set_backend_pattern_configs(set_backend_pattern_config(
    set_backend_pattern_configs(set_backend_pattern_configs(
    set_backend_pattern_configs(BackendConfig("onednn"),
        conv_configs),
        linear_configs),
        _get_binary_op_configs(binary_op_dtype_configs)),
        _get_cat_config(default_op_dtype_configs)),
        _get_default_op_configs(default_op_dtype_configs)),
        _get_fixed_qparams_op_configs(fixed_qparams_op_dtype_configs)),
        _get_share_qparams_op_configs(share_qparams_op_dtype_configs)),
        _get_bn_configs(default_op_dtype_configs)),
        _get_ln_configs(layer_norm_op_dtype_configs)),
        _get_rnn_op_configs(rnn_op_dtype_configs)),
        _get_embedding_op_configs(embedding_op_dtype_configs))

\* get_onednn_backend_config()
GetOnednnBackendConfig_extend ==
    /\ pc = "loaded"
    /\ gets < MaxGets
    /\ linear_configs' = linear_configs \o _get_ln_configs(layer_norm_op_dtype_configs)
    /\ backend_config' = [onednn_backend_config EXCEPT !.configs =
                              @ \o _get_ln_configs(layer_norm_op_dtype_configs)]
    /\ returned' = returned \cup {backend_config'}
    /\ gets' = gets + 1
    /\ UNCHANGED <<pc, conv_configs, loaded, configs0, configs, calls,
                   call, linear, bn, leaky_relu, is_qat, fuse_out>>

GetOnednnBackendConfig ==
    /\ pc = "loaded"
    /\ gets < MaxGets
    /\ backend_config' = onednn_backend_config
    /\ returned' = returned \cup {backend_config'}
    /\ gets' = gets + 1
    /\ UNCHANGED <<pc, conv_configs, linear_configs, loaded, configs0, configs,
                   calls, call, linear, bn, leaky_relu, is_qat, fuse_out>>

Next ==
    \/ LoadConvConfigs
    \/ LoadLinearConfigs
    \/ LoadLinearLeakyReLU
    \/ LoadLinearBnLeakyReLU
    \/ LoadLinearTanh
    \/ AddEltwiseFusionConfigs
    \/ FuseLinearBnLeakyReLU
    \/ GetOnednnBackendConfig

Spec == Init /\ [][Next]_vars

\* ------------------------------------------------------------ properties
HelperCalled == call.target # None
FuseCalled == fuse_out.outcome # "none"
SameMode == linear.training = bn.training /\ bn.training = leaky_relu.training
AllTraining == linear.training /\ bn.training /\ leaky_relu.training
AllEval == ~linear.training /\ ~bn.training /\ ~leaky_relu.training
Inputs == {Rat(x, 1) : x \in -MaxX..MaxX}
\* the i-th descriptor the last helper call appended
Appended(i) == call.after[Len(call.before) + i]

\* C1 as stated: one call of _add_eltwise_fusion_configs leaves the collection
\* exactly four descriptors longer than it found it.
C1_AppendsExactlyFour ==
    HelperCalled => Len(call.after) = Len(call.before) + 4

\* C1 amended: one call of _add_eltwise_fusion_configs leaves the collection
\* exactly five descriptors longer than it found it, for every argument tuple
\* and starting collection; a caller's collection is five longer per call.
C1_AppendsExactlyFive ==
    /\ HelperCalled => Len(call.after) = Len(call.before) + 5
    /\ Len(configs) = Len(configs0) + 5 * calls

C1_Witness ==
    /\ call.target = "configs"
    /\ calls = 2
    /\ Len(configs0) = 2
    /\ Len(configs) = 12

\* C2: the helper is append-only and order-preserving: what the collection
\* held before a call is still there afterwards, at the same indices and
\* unmodified, and over any sequence of calls the starting collection stays
\* a prefix of the collection.
C2_AppendOnly ==
    /\ HelperCalled =>
          /\ Len(call.after) >= Len(call.before)
          /\ \A i \in 1..Len(call.before) : call.after[i] = call.before[i]
    /\ Len(configs) >= Len(configs0)
    /\ \A i \in 1..Len(configs0) : configs[i] = configs0[i]

C2_Witness ==
    /\ call.target = "configs"
    /\ calls >= 2
    /\ Len(call.before) > Len(configs0)
    /\ Len(configs0) > 0
    /\ configs = call.after

\* C3: when the three modules do not share one train/eval mode, the call fails
\* with the AssertionError of the mode check, for every is_qat and every type
\* of linear; no fold was attempted, no fused module built, and the error is
\* not NotImplementedError.
C3_ModeMismatchAsserts ==
    (FuseCalled /\ ~SameMode) =>
        /\ fuse_out.outcome = "AssertionError"
        /\ fuse_out.message = AssertMessage
        /\ fuse_out.outcome # "NotImplementedError"
        /\ ~fuse_out.fold_called
        /\ ~fuse_out.constructed
        /\ fuse_out.value = NoModule

C3_Witness ==
    /\ FuseCalled
    /\ is_qat
    /\ ~linear.training /\ bn.training
    /\ linear.type = "nn.Linear"
    /\ fuse_out.outcome = "AssertionError"

\* C4 as stated: when all three modules are in training mode, the call raises
\* NotImplementedError whatever the modules' types.
C4_AllTrainingNotImplemented ==
    (FuseCalled /\ AllTraining) => fuse_out.outcome = "NotImplementedError"

\* C5: when the modules agree on the mode and is_qat is true, the call always
\* raises NotImplementedError with the three modules in its message, for every
\* type of linear; it never folds and never returns a module.
C5_QatNotImplemented ==
    (FuseCalled /\ SameMode /\ is_qat) =>
        /\ fuse_out.outcome = "NotImplementedError"
        /\ fuse_out.message = "Cannot fuse train modules: {}"
        /\ fuse_out.modules = <<linear, bn, leaky_relu>>
        /\ ~fuse_out.fold_called
        /\ ~fuse_out.constructed
        /\ fuse_out.value = NoModule

C5_Witness ==
    /\ FuseCalled /\ SameMode /\ is_qat
    /\ ~linear.training
    /\ linear.type = "nn.Linear"
    /\ fuse_out.outcome = "NotImplementedError"

\* C6: when the modules agree on the mode, is_qat is false and the exact type
\* of linear is not nn.Linear (a subclass included), the call raises
\* NotImplementedError naming the three modules, without folding or building
\* a fused module.
C6_UnregisteredTypeNotImplemented ==
    (FuseCalled /\ SameMode /\ ~is_qat /\ linear.type # "nn.Linear") =>
        /\ fuse_out.outcome = "NotImplementedError"
        /\ fuse_out.message = "Cannot fuse eval modules: {}"
        /\ fuse_out.modules = <<linear, bn, leaky_relu>>
        /\ ~fuse_out.fold_called
        /\ ~fuse_out.constructed
        /\ fuse_out.value = NoModule

C6_Witness ==
    /\ FuseCalled /\ SameMode /\ ~is_qat
    /\ linear.type = "NonDynamicallyQuantizableLinear"
    /\ fuse_out.outcome = "NotImplementedError"

\* C7: with all three modules in evaluation mode, is_qat false and linear of
\* type nn.Linear, the call raises nothing and returns one nni.LinearLeakyReLU
\* whose first component is the fold of bn into linear and whose second is the
\* given leaky_relu; on every input it computes what linear, bn and leaky_relu
\* compute in sequence.
C7_EvalFusionEquivalent ==
    (FuseCalled /\ AllEval /\ ~is_qat /\ linear.type = "nn.Linear") =>
        /\ fuse_out.outcome = "returned"
        /\ fuse_out.value.type = "nni.LinearLeakyReLU"
        /\ fuse_out.value.linear = fuse_linear_bn_eval(linear, bn)
        /\ fuse_out.value.leaky_relu = leaky_relu
        /\ \A x \in Inputs :
              RatEq(LinearLeakyReLUForward(fuse_out.value, x),
                    LeakyReLUForward(leaky_relu,
                        BatchNormForward(bn, LinearForward(linear, x))))

C7_Witness ==
    /\ FuseCalled /\ AllEval /\ ~is_qat
    /\ linear.type = "nn.Linear"
    /\ fuse_out.outcome = "returned"
    /\ linear.weight = 1 /\ bn.running_mean = 1 /\ bn.std = 2
    /\ \E x \in Inputs : LinearLeakyReLUForward(fuse_out.value, x).num < 0
    /\ \E x \in Inputs : LinearLeakyReLUForward(fuse_out.value, x).num > 0

\* C8: the BackendConfig get_onednn_backend_config returns is named "onednn",
\* its list of descriptors is not empty and holds the descriptors of every
\* family: conv, linear with the local leaky_relu, batch-norm + leaky_relu and
\* tanh fusion descriptors, binary ops, cat, default ops, fixed-qparams ops,
\* share-qparams ops, batch norm, layer norm, rnn ops and embedding ops, each
\* built with the dtype list this file assigns to it.
EltwisePatterns(a) ==
    { <<a.root_module, a.post_module>>, <<a.root_module, a.post_op>>,
      <<a.fused_module>>, <<a.root_op, a.post_module>>, <<a.root_op, a.post_op>> }
HasPattern(cs, pattern, dtype_configs) ==
    \E c \in Range(cs) : c.pattern = pattern /\ c.dtype_configs = dtype_configs
C8_BackendConfigContents ==
    gets >= 1 =>
        LET cs == backend_config.configs IN
        /\ backend_config.name = "onednn"
        /\ Len(cs) > 0
        /\ Range(_get_conv_configs(conv_dtype_configs)) \subseteq Range(cs)
        /\ Range(_get_linear_configs(linear_dtype_configs)) \subseteq Range(cs)
        /\ \A p \in EltwisePatterns(LeakyReLUArgs) \cup EltwisePatterns(TanhArgs) :
              HasPattern(cs, p, linear_dtype_configs)
        /\ \E c \in Range(cs) :
              /\ c.pattern = <<"nn.Linear", "nn.BatchNorm1d", "nn.LeakyReLU">>
              /\ c.dtype_configs = linear_dtype_configs
              /\ c.fuser_method = "_fuse_linear_bn_leaky_relu"
              /\ c.fused_module = "nni.LinearLeakyReLU"
        /\ Range(_get_binary_op_configs(binary_op_dtype_configs)) \subseteq Range(cs)
        /\ _get_cat_config(default_op_dtype_configs) \in Range(cs)
        /\ Range(_get_default_op_configs(default_op_dtype_configs)) \subseteq Range(cs)
        /\ Range(_get_fixed_qparams_op_configs(fixed_qparams_op_dtype_configs))
              \subseteq Range(cs)
        /\ Range(_get_share_qparams_op_configs(share_qparams_op_dtype_configs))
              \subseteq Range(cs)
        /\ Range(_get_bn_configs(default_op_dtype_configs)) \subseteq Range(cs)
        /\ Range(_get_ln_configs(layer_norm_op_dtype_configs)) \subseteq Range(cs)
        /\ Range(_get_rnn_op_configs(rnn_op_dtype_configs)) \subseteq Range(cs)
        /\ Range(_get_embedding_op_configs(embedding_op_dtype_configs))
              \subseteq Range(cs)

C8_Witness ==
    /\ gets = 1
    /\ backend_config.name = "onednn"
    /\ Len(backend_config.configs) > Len(linear_configs) + Len(conv_configs)

\* C9: every call of get_onednn_backend_config after load returns the same
\* content (name and descriptors, in order), and no call changes conv_configs
\* or linear_configs from what they were when load ended.
C9_Idempotent ==
    pc = "loaded" =>
        /\ Cardinality(returned) <= 1
        /\ gets >= 1 => returned = {backend_config}
        /\ conv_configs = loaded.conv_configs
        /\ linear_configs = loaded.linear_configs

C9_Witness ==
    /\ pc = "loaded"
    /\ gets >= 2
    /\ calls >= 1
    /\ FuseCalled
    /\ returned = {backend_config}

====
